---- MODULE Spec2Model ----
(***************************************************************************)
(* The "register user" slice of the clean-pattern repository: the          *)
(* RegisterUser use-case, the SQL repository adapter over the users table, *)
(* the POST /users handler, the user-signups topic with its subscription,  *)
(* the cleanup-unverified job and the seed script.                         *)
(*                                                                         *)
(* A string is a sequence of one-character strings, so that trim,          *)
(* toLowerCase and the validation regex are computed character by          *)
(* character.  Every await of the handlers is a separate step, so requests *)
(* interleave at the points where the code yields to the event loop.       *)
(***************************************************************************)
EXTENDS Integers, Sequences, FiniteSets, Bags, TLC

(***************************************************************************)
(* Bounds of the model.                                                    *)
(***************************************************************************)
NumReqs == 2          \* POST /users requests handled in one behaviour
MaxLen == 5           \* length of the emails SpecValidation enumerates
MaxTicks == 2         \* clock steps of TickHours each
MaxDeliveries == 2    \* deliveries of one event (at-least-once)

Reqs == 1..NumReqs

(***************************************************************************)
(* Strings.                                                                *)
(***************************************************************************)
Whitespace == {" "}

toLowerCaseChar(c) ==
  CASE c = "A" -> "a"
    [] c = "B" -> "b"
    [] OTHER -> c

\* String.prototype.toLowerCase
toLowerCase(s) == [i \in 1..Len(s) |-> toLowerCaseChar(s[i])]

RECURSIVE trimStart(_)
trimStart(s) ==
  IF s # <<>> /\ Head(s) \in Whitespace THEN trimStart(Tail(s)) ELSE s

RECURSIVE trimEnd(_)
trimEnd(s) ==
  IF s # <<>> /\ s[Len(s)] \in Whitespace
  THEN trimEnd(SubSeq(s, 1, Len(s) - 1))
  ELSE s

\* String.prototype.trim
trim(s) == trimEnd(trimStart(s))

\* the normalization without its trim, and without its toLowerCase
normalizeEmail_noTrim(raw) == toLowerCase(raw)

normalizeEmail_noLower(raw) == trim(raw)

\* const email = input.email.trim().toLowerCase();
normalizeEmail(raw) == toLowerCase(trim(raw))

\* the validation with the regex /^[^@]+@[^@]+$/, which asks for no dot
isValidEmail_noDot(s) ==
  \E i \in 1..Len(s) :
    /\ s[i] = "@"
    /\ i > 1
    /\ i < Len(s)
    /\ \A k \in 1..Len(s) : k # i => s[k] # "@"

\* the regex /@/ : a test for an '@' only
isValidEmail_onlyAt(s) == \E i \in 1..Len(s) : s[i] = "@"

\* the regex /^.+@.+\..+$/ : any character where the regex has [^@]
isValidEmail_anyChar(s) ==
  \E i \in 2..Len(s) :
    /\ s[i] = "@"
    /\ \E j \in (i + 2)..(Len(s) - 1) : s[j] = "."

\* /^[^@]+@[^@]+\.[^@]+$/.test(email): i is the place of the '@', j the place
\* of a '.' after it; every other character is any character but '@'.
isValidEmail(s) ==
  \E i \in 1..Len(s) :
    /\ s[i] = "@"
    /\ i > 1
    /\ \A k \in 1..Len(s) : k # i => s[k] # "@"
    /\ \E j \in (i + 2)..(Len(s) - 1) : s[j] = "."

(***************************************************************************)
(* The inputs of the requests.                                             *)
(***************************************************************************)
Email_A_B_com      == <<"A", "@", "B", ".", "c", "o", "m">>
Email_Bob_example  == <<" ", "B", "o", "b", "@", "e", "x", "a", "m", "p", "l", "e", ".", "c", "o", "m", " ">>
Email_a_b_nodot    == <<"a", "@", "b">>

alice_example_com  == <<"a", "l", "i", "c", "e", "@", "e", "x", "a", "m", "p", "l", "e", ".", "c", "o", "m">>
bob_example_com    == <<"b", "o", "b", "@", "e", "x", "a", "m", "p", "l", "e", ".", "c", "o", "m">>

undefined == "undefined"     \* an absent optional field
SqlNull == "NULL"

\* The RegisterRequest values the clients send: the unit test's input; the
\* address of a seeded user in another letter case, padded with blanks and
\* without a name; and an address with no dot after the '@'.
RegisterInput ==
  { [email |-> Email_A_B_com, name |-> "Alice"],
    [email |-> Email_Bob_example, name |-> undefined],
    [email |-> Email_a_b_nodot, name |-> "Alice"] }

(***************************************************************************)
(* Records.                                                                *)
(***************************************************************************)
\* the user built with verified: true
NewUser_verified(id, e, name) ==
  [id |-> id, email |-> e, name |-> name, verified |-> TRUE]

\* const user = { id, email, name: input.name, verified: false };
NewUser(id, e, name) ==
  [id |-> id, email |-> e, name |-> name, verified |-> FALSE]

\* the event published without the user's id
SignupEvent_noId(u) == [userID |-> 0, email |-> u.email]

\* await signups.publish({ userID: user.id, email: user.email });
SignupEvent(u) == [userID |-> u.id, email |-> u.email]

Created == 201     \* HttpStatus.Created
\* the response with status HttpStatus.OK
RegisterResponse_OK(u) ==
  [id |-> u.id, email |-> u.email, name |-> u.name, verified |-> u.verified,
   status |-> 200]

\* return { ...user, status: HttpStatus.Created };
RegisterResponse(u) ==
  [id |-> u.id, email |-> u.email, name |-> u.name, verified |-> u.verified,
   status |-> Created]

\* What a finished request holds: the value the handler returned, or the
\* error that left it.
Returned(body) == [kind |-> "return", body |-> body]
Thrown(err) == [kind |-> "throw", error |-> err]
Pending == [kind |-> "pending"]

INVALID_EMAIL == "INVALID_EMAIL"
EMAIL_TAKEN == "EMAIL_TAKEN"
\* the error a sendWelcome promise rejects with
SEND_REJECTED == "SEND_REJECTED"
\* the error DB.exec rejects with when the INSERT violates a constraint
SQL_UNIQUE_VIOLATION == "SQL_UNIQUE_VIOLATION"

\* One call of a port (or of the topic) made by a request.
Call(op, arg) == [op |-> op, arg |-> arg]

(***************************************************************************)
(* The users table and the SQL statements of the adapter.                  *)
(***************************************************************************)
\* id TEXT PRIMARY KEY
PrimaryKeyViolation(table, id) == \E row \in table : row.id = id

\* the table without the UNIQUE constraint on email
UniqueEmailViolation_none(table, e) == FALSE

\* email TEXT UNIQUE NOT NULL
UniqueEmailViolation(table, e) == \E row \in table : row.email = e

\* ${u.name ?? null}
NameToSql(name) == IF name = undefined THEN SqlNull ELSE name

\* findByEmail returning the name column as it is
NameFromSql_raw(name) == name

\* row.name ?? undefined
NameFromSql(name) == IF name = SqlNull THEN undefined ELSE name

\* INSERT INTO users (id, email, name, verified) VALUES (...); created_at
\* takes its default, NOW().
InsertedRow(u, t) ==
  [id |-> u.id, email |-> u.email, name |-> NameToSql(u.name),
   verified |-> u.verified, created_at |-> t]

\* a users table whose email column is not UNIQUE
InsertViolates_pkOnly(table, u) == PrimaryKeyViolation(table, u.id)

\* The INSERT of create is rejected when it violates a constraint of the table.
InsertViolates(table, u) ==
  PrimaryKeyViolation(table, u.id) \/ UniqueEmailViolation(table, u.email)

\* the SELECT without its WHERE clause
FindByEmailResults_any(table, e) ==
  { [id |-> row.id, email |-> row.email, name |-> NameFromSql(row.name),
     verified |-> row.verified] : row \in table }

\* SELECT id, email, name, verified FROM users WHERE email = ${email}, each
\* row mapped as findByEmail maps it.  queryRow yields one of the rows, or
\* null (here the empty set) when there is none.
FindByEmailResults(table, e) ==
  { [id |-> row.id, email |-> row.email, name |-> NameFromSql(row.name),
     verified |-> row.verified] : row \in { x \in table : x.email = e } }

null == {}

CleanupHours == 24
TickHours == 24

\* the WHERE clause without verified = FALSE
StaleUnverified_any(table, t, hours) ==
  { row \in table : row.created_at < t - hours }

\* WHERE verified = FALSE AND created_at < NOW() - ($1 || ' hours')::interval
StaleUnverified(table, t, hours) ==
  { row \in table : row.verified = FALSE /\ row.created_at < t - hours }

\* the sweep with SET verified = TRUE
DisabledRow_verify(row) == [row EXCEPT !.verified = TRUE]

\* UPDATE users SET verified = FALSE
DisabledRow(row) == [row EXCEPT !.verified = FALSE]

\* the sweep as UPDATE users SET verified = NOT verified WHERE created_at <
\* NOW() - interval: it flips the flag of every stale row
Swept_flip(table, t, hours) ==
  LET stale == { row \in table : row.created_at < t - hours } IN
    (table \ stale) \cup { [row EXCEPT !.verified = ~row.verified] : row \in stale }

\* The table after the UPDATE of disableUnverifiedOlderThan(hours) at time t.
Swept(table, t, hours) ==
  LET stale == StaleUnverified(table, t, hours) IN
    (table \ stale) \cup { DisabledRow(row) : row \in stale }

\* scripts/seed.ts: the two sample users
SeedUsers ==
  { [id |-> 11111111, email |-> alice_example_com, name |-> "Alice", verified |-> TRUE],
    [id |-> 22222222, email |-> bob_example_com, name |-> "Bob", verified |-> FALSE] }

SeedIds == { s.id : s \in SeedUsers }


(***************************************************************************)
(* State.                                                                  *)
(***************************************************************************)
VARIABLES
  users,      \* the rows of the users table
  now,        \* the database clock NOW(), in hours
  nextId,     \* the number of ids IdGen has handed out
  pc,         \* per request: the await its handler is suspended at
  req,        \* per request: the RegisterRequest it was called with
  email,      \* per request: exec's local email
  existing,   \* per request: exec's local existing (null or one record)
  user,       \* per request: exec's local user (null until built)
  calls,      \* per request: the port and topic calls made so far, in order
  result,     \* per request: what the handler returned or threw
  mails,      \* the bag of welcome emails EmailSenderImpl has logged
  published,  \* the events of the user-signups topic, in publication order
  delivered,  \* per published event: deliveries to send-welcome-secondary
  lastSweep   \* the last run of disableUnverifiedOlderThan

vars ==
  <<users, now, nextId, pc, req, email, existing, user, calls, result, mails,
    published, delivered, lastSweep>>

reqVars == <<pc, req, email, existing, user, calls, result>>

NoRequest == [email |-> <<>>, name |-> undefined]

\* the one element of a non-null optional value
The(opt) == CHOOSE x \in opt : TRUE

NoSweep == [ran |-> FALSE, matched |-> 0, returned |-> 0]

Init ==
  /\ users = {}
  /\ now = 0
  /\ nextId = 0
  /\ pc = [r \in Reqs |-> "idle"]
  /\ req = [r \in Reqs |-> NoRequest]
  /\ email = [r \in Reqs |-> <<>>]
  /\ existing = [r \in Reqs |-> null]
  /\ user = [r \in Reqs |-> null]
  /\ calls = [r \in Reqs |-> <<>>]
  /\ result = [r \in Reqs |-> Pending]
  /\ mails = EmptyBag
  /\ published = <<>>
  /\ delivered = <<>>
  /\ lastSweep = NoSweep

(***************************************************************************)
(* POST /users: the register handler and RegisterUser.exec.                *)
(***************************************************************************)
\* EmailSenderImpl.sendWelcome: console.log("[EMAIL] Welcome", { to, name })
Welcome(to, name, via) == [to |-> to, name |-> name, via |-> via]

\* a handler that publishes an event also when exec throws
HandlerThrows_publishing(r, err) ==
  /\ pc' = [pc EXCEPT ![r] = "done"]
  /\ result' = [result EXCEPT ![r] = Thrown(err)]
  /\ published' = Append(published, [userID |-> 0, email |-> email'[r]])
  /\ delivered' = Append(delivered, 0)

\* An error leaves exec and, uncaught, the handler.
HandlerThrows(r, err) ==
  /\ pc' = [pc EXCEPT ![r] = "done"]
  /\ result' = [result EXCEPT ![r] = Thrown(err)]
  /\ UNCHANGED <<published, delivered>>

\* exec looking the email up before it validates it
RegisterWith_lookupFirst(r, input) ==
  /\ pc[r] = "idle"
  /\ \A q \in Reqs : q < r => pc[q] # "idle"
  /\ req' = [req EXCEPT ![r] = input]
  /\ email' = [email EXCEPT ![r] = normalizeEmail(input.email)]
  /\ calls' = [calls EXCEPT ![r] = <<Call("findByEmail", email'[r])>>]
  /\ IF ~isValidEmail(email'[r])
     THEN HandlerThrows(r, INVALID_EMAIL)
     ELSE /\ pc' = [pc EXCEPT ![r] = "findByEmail"]
          /\ UNCHANGED <<result, published, delivered>>
  /\ UNCHANGED <<users, now, nextId, existing, user, mails, lastSweep>>

\* The handler is called: exec normalizes and validates the email and, if it
\* is well-formed, calls repo.findByEmail and awaits it.
RegisterWith(r, input) ==
  /\ pc[r] = "idle"
  /\ \A q \in Reqs : q < r => pc[q] # "idle"
  /\ req' = [req EXCEPT ![r] = input]
  /\ email' = [email EXCEPT ![r] = normalizeEmail(input.email)]
  /\ IF ~isValidEmail(email'[r])
     THEN /\ HandlerThrows(r, INVALID_EMAIL)
          /\ UNCHANGED calls
     ELSE /\ pc' = [pc EXCEPT ![r] = "findByEmail"]
          /\ calls' = [calls EXCEPT ![r] = <<Call("findByEmail", email'[r])>>]
          /\ UNCHANGED <<result, published, delivered>>
  /\ UNCHANGED <<users, now, nextId, existing, user, mails, lastSweep>>

\* a client sends one of the requests
Register(r) == \E input \in RegisterInput : RegisterWith(r, input)

\* IdGen.newId(): an id no earlier call returned, from the number of ids
\* handed out so far.
newId(issued) == issued + 1

\* exec returning the stored user instead of throwing EMAIL_TAKEN: the
\* handler then publishes its event again
FindByEmail_returnExisting(r) ==
  /\ pc[r] = "findByEmail"
  /\ LET rows == FindByEmailResults(users, email[r]) IN
       IF rows # {}
       THEN /\ \E row \in rows :
                 /\ existing' = [existing EXCEPT ![r] = {row}]
                 /\ user' = [user EXCEPT ![r] = {row}]
                 /\ calls' = [calls EXCEPT ![r] = Append(@, Call("publish", SignupEvent(row)))]
            /\ pc' = [pc EXCEPT ![r] = "publish"]
            /\ UNCHANGED <<nextId, result, published, delivered>>
       ELSE /\ existing' = [existing EXCEPT ![r] = null]
            /\ nextId' = newId(nextId)
            /\ user' = [user EXCEPT ![r] = {NewUser(nextId', email[r], req[r].name)}]
            /\ calls' = [calls EXCEPT ![r] =
                           @ \o <<Call("newId", nextId'), Call("create", The(user'[r]))>>]
            /\ pc' = [pc EXCEPT ![r] = "create"]
            /\ UNCHANGED <<result, published, delivered>>
  /\ UNCHANGED <<users, now, req, email, mails, lastSweep>>

\* exec sending the welcome email before it creates the record
FindByEmail_mailFirst(r) ==
  /\ pc[r] = "findByEmail"
  /\ LET rows == FindByEmailResults(users, email[r]) IN
       IF rows # {}
       THEN /\ \E row \in rows : existing' = [existing EXCEPT ![r] = {row}]
            /\ HandlerThrows(r, EMAIL_TAKEN)
            /\ UNCHANGED <<nextId, user, calls, mails>>
       ELSE /\ existing' = [existing EXCEPT ![r] = null]
            /\ nextId' = newId(nextId)
            /\ user' = [user EXCEPT ![r] = {NewUser(nextId', email[r], req[r].name)}]
            /\ mails' = mails (+) SetToBag({Welcome(email[r], req[r].name, "usecase")})
            /\ calls' = [calls EXCEPT ![r] =
                           @ \o <<Call("newId", nextId'),
                                  Call("sendWelcome", <<email[r], req[r].name>>),
                                  Call("create", The(user'[r]))>>]
            /\ pc' = [pc EXCEPT ![r] = "create"]
            /\ UNCHANGED <<result, published, delivered>>
  /\ UNCHANGED <<users, now, req, email, lastSweep>>

\* exec taking one id for the record it returns and another for the record
\* it passes to repo.create
FindByEmail_idPerUse(r) ==
  /\ pc[r] = "findByEmail"
  /\ LET rows == FindByEmailResults(users, email[r]) IN
       IF rows # {}
       THEN /\ \E row \in rows : existing' = [existing EXCEPT ![r] = {row}]
            /\ HandlerThrows(r, EMAIL_TAKEN)
            /\ UNCHANGED <<nextId, user, calls>>
       ELSE /\ existing' = [existing EXCEPT ![r] = null]
            /\ nextId' = newId(newId(nextId))
            /\ user' = [user EXCEPT ![r] = {NewUser(nextId', email[r], req[r].name)}]
            /\ calls' = [calls EXCEPT ![r] =
                           @ \o <<Call("newId", newId(nextId)), Call("newId", nextId'),
                                  Call("create", The(user'[r]))>>]
            /\ pc' = [pc EXCEPT ![r] = "create"]
            /\ UNCHANGED <<result, published, delivered>>
  /\ UNCHANGED <<users, now, req, email, mails, lastSweep>>

\* The SELECT runs and findByEmail resolves: exec throws EMAIL_TAKEN, or
\* takes an id, builds the user, calls repo.create and awaits it.
FindByEmail(r) ==
  /\ pc[r] = "findByEmail"
  /\ LET rows == FindByEmailResults(users, email[r]) IN
       IF rows # {}
       THEN /\ \E row \in rows : existing' = [existing EXCEPT ![r] = {row}]
            /\ HandlerThrows(r, EMAIL_TAKEN)
            /\ UNCHANGED <<nextId, user, calls>>
       ELSE /\ existing' = [existing EXCEPT ![r] = null]
            /\ nextId' = newId(nextId)
            /\ user' = [user EXCEPT ![r] = {NewUser(nextId', email[r], req[r].name)}]
            /\ calls' = [calls EXCEPT ![r] =
                           @ \o <<Call("newId", nextId'), Call("create", The(user'[r]))>>]
            /\ pc' = [pc EXCEPT ![r] = "create"]
            /\ UNCHANGED <<result, published, delivered>>
  /\ UNCHANGED <<users, now, req, email, mails, lastSweep>>

\* exec publishing the signup event itself, after the welcome email
Create_execPublishes(r) ==
  /\ pc[r] = "create"
  /\ LET u == The(user[r]) IN
       IF InsertViolates(users, u)
       THEN /\ HandlerThrows(r, SQL_UNIQUE_VIOLATION)
            /\ UNCHANGED <<users, mails, calls>>
       ELSE /\ users' = users \cup {InsertedRow(u, now)}
            /\ mails' = mails (+) SetToBag({Welcome(email[r], req[r].name, "usecase")})
            /\ calls' = [calls EXCEPT ![r] =
                           @ \o << Call("sendWelcome", <<email[r], req[r].name>>),
                                   Call("publish", SignupEvent(u)) >>]
            /\ published' = Append(published, SignupEvent(u))
            /\ delivered' = Append(delivered, 0)
            /\ pc' = [pc EXCEPT ![r] = "done"]
            /\ result' = [result EXCEPT ![r] = Returned(RegisterResponse(u))]
  /\ UNCHANGED <<now, nextId, req, email, existing, user, lastSweep>>

\* The INSERT runs and create resolves or rejects.  Resolved: exec calls
\* mail.sendWelcome, which logs at once, and returns the user; the handler
\* calls signups.publish and awaits it.  Rejected: the error leaves exec and
\* the handler.
Create(r) ==
  /\ pc[r] = "create"
  /\ LET u == The(user[r]) IN
       IF InsertViolates(users, u)
       THEN /\ HandlerThrows(r, SQL_UNIQUE_VIOLATION)
            /\ UNCHANGED <<users, mails, calls>>
       ELSE /\ users' = users \cup {InsertedRow(u, now)}
            /\ mails' = mails (+) SetToBag({Welcome(email[r], req[r].name, "usecase")})
            /\ calls' = [calls EXCEPT ![r] =
                           @ \o << Call("sendWelcome", <<email[r], req[r].name>>),
                                   Call("publish", SignupEvent(u)) >>]
            /\ pc' = [pc EXCEPT ![r] = "publish"]
            /\ UNCHANGED <<result, published, delivered>>
  /\ UNCHANGED <<now, nextId, req, email, existing, user, lastSweep>>

\* a repository that takes the record back when the email cannot be sent
CreateMailThrows_rollback(r) ==
  /\ pc[r] = "create"
  /\ ~InsertViolates(users, The(user[r]))
  /\ calls' = [calls EXCEPT ![r] =
                 Append(@, Call("sendWelcome", <<email[r], req[r].name>>))]
  /\ HandlerThrows(r, SEND_REJECTED)
  /\ UNCHANGED <<users, now, nextId, req, email, existing, user, mails, lastSweep>>

\* The INSERT runs and create resolves; exec calls mail.sendWelcome, whose
\* promise rejects (the EmailSender port is any implementation; the adapter
\* is to call an email service).  exec catches nothing: the rejection leaves
\* exec and the handler, after the INSERT and before publish.
CreateMailThrows(r) ==
  /\ pc[r] = "create"
  /\ ~InsertViolates(users, The(user[r]))
  /\ users' = users \cup {InsertedRow(The(user[r]), now)}
  /\ calls' = [calls EXCEPT ![r] =
                 Append(@, Call("sendWelcome", <<email[r], req[r].name>>))]
  /\ HandlerThrows(r, SEND_REJECTED)
  /\ UNCHANGED <<now, nextId, req, email, existing, user, mails, lastSweep>>

\* a handler that returns the record without publishing the event
Publish_forgotten(r) ==
  /\ pc[r] = "publish"
  /\ result' = [result EXCEPT ![r] = Returned(RegisterResponse(The(user[r])))]
  /\ pc' = [pc EXCEPT ![r] = "done"]
  /\ UNCHANGED <<users, now, nextId, req, email, existing, user, calls, mails,
                 published, delivered, lastSweep>>

\* The topic takes the event and publish resolves: the handler returns.
Publish(r) ==
  /\ pc[r] = "publish"
  /\ published' = Append(published, SignupEvent(The(user[r])))
  /\ delivered' = Append(delivered, 0)
  /\ result' = [result EXCEPT ![r] = Returned(RegisterResponse(The(user[r])))]
  /\ pc' = [pc EXCEPT ![r] = "done"]
  /\ UNCHANGED <<users, now, nextId, req, email, existing, user, calls, mails, lastSweep>>

\* What the client of POST /users is answered.  A handler that returns
\* answers with its value.  The handler catches nothing and builds no
\* APIError: an Error thrown by exec or by DB.exec leaves it as it is, and
\* the framework answers an error that is no APIError as an internal one.
EndpointResponse(res) ==
  IF res.kind = "return"
  THEN [code |-> "ok", body |-> res.body]
  ELSE [code |-> "internal"]

(***************************************************************************)
(* The user-signups topic and its subscription.                            *)
(***************************************************************************)
\* a subscription handler that calls sendWelcome twice for a delivery
Deliver_resend(i) ==
  /\ i \in 1..Len(published)
  /\ delivered[i] < MaxDeliveries
  /\ delivered' = [delivered EXCEPT ![i] = @ + 1]
  /\ mails' = mails (+) SetToBag({Welcome(published[i].email, undefined, "subscription")})
                     (+) SetToBag({Welcome(published[i].email, undefined, "subscription")})
  /\ UNCHANGED <<users, now, nextId, reqVars, published, lastSweep>>

\* send-welcome-secondary: await EmailSenderImpl().sendWelcome(evt.email)
Deliver(i) ==
  /\ i \in 1..Len(published)
  /\ delivered[i] < MaxDeliveries
  /\ delivered' = [delivered EXCEPT ![i] = @ + 1]
  /\ mails' = mails (+) SetToBag({Welcome(published[i].email, undefined, "subscription")})
  /\ UNCHANGED <<users, now, nextId, reqVars, published, lastSweep>>

(***************************************************************************)
(* The cleanup job, the seed script and the clock.                         *)
(***************************************************************************)
\* What disableUnverifiedOlderThan returns for a sweep that matched n rows:
\* "rawExec returns void", return 0.
SweepResult(n) == 0

\* cleanupUnverified: await UserRepoSQL().disableUnverifiedOlderThan(24)
cleanupUnverified ==
  /\ LET stale == StaleUnverified(users, now, CleanupHours) IN
       /\ users' = Swept(users, now, CleanupHours)
       /\ lastSweep' = [ran |-> TRUE, matched |-> Cardinality(stale),
                        returned |-> SweepResult(Cardinality(stale))]
  /\ UNCHANGED <<now, nextId, reqVars, mails, published, delivered>>

\* the INSERT with ON CONFLICT (email) DO UPDATE: a sample user replaces the
\* row that has its email
Seeded_upsert(table, t) ==
  { row \in table : \A s \in SeedUsers : row.email # s.email }
    \cup { InsertedRow(s, t) : s \in SeedUsers }

\* The table after the INSERT of the seed script at time t: the sample users
\* whose email no row has are inserted, ON CONFLICT (email) DO NOTHING.  A
\* primary-key conflict fails the statement, which then inserts nothing.
Seeded(table, t) ==
  LET fresh == { s \in SeedUsers : ~UniqueEmailViolation(table, s.email) } IN
    IF \E s \in fresh : PrimaryKeyViolation(table, s.id)
    THEN table
    ELSE table \cup { InsertedRow(s, t) : s \in fresh }

\* scripts/seed.ts main: one INSERT of the sample users.
seed ==
  /\ users' = Seeded(users, now)
  /\ UNCHANGED <<now, nextId, reqVars, mails, published, delivered, lastSweep>>

Tick ==
  /\ now + TickHours <= MaxTicks * TickHours
  /\ now' = now + TickHours
  /\ UNCHANGED <<users, nextId, reqVars, mails, published, delivered, lastSweep>>

\* The users side of the system: the requests, the job, the script and the
\* clock.  The subscription's deliveries read and write only delivered and
\* mails, which none of these actions reads; SpecSignups explores them.
Next ==
  \/ \E r \in Reqs : Register(r)
  \/ \E r \in Reqs : FindByEmail(r)
  \/ \E r \in Reqs : Create(r)
  \/ \E r \in Reqs : Publish(r)
  \/ cleanupUnverified
  \/ seed
  \/ Tick

Spec == Init /\ [][Next]_vars

\* The topic side: the requests and the deliveries of their events.
NextSignups ==
  \/ \E r \in Reqs : Register(r)
  \/ \E r \in Reqs : FindByEmail(r)
  \/ \E r \in Reqs : Create(r)
  \/ \E r \in Reqs : Publish(r)
  \/ \E i \in 1..Len(published) : Deliver(i)

SpecSignups == Init /\ [][NextSignups]_vars

(***************************************************************************)
(* The second copy of the use-case, src/app/usecases/RegisterUser.ts.       *)
(***************************************************************************)
\* a copy that does not trim the email
appNormalizeEmail_noTrim(raw) == toLowerCase(raw)

\* const email = input.email.trim().toLowerCase()
appNormalizeEmail(raw) == toLowerCase(trim(raw))

\* /^[^@]+@[^@]+\.[^@]+$/.test(email), matched from left to right: a run of
\* one or more characters other than '@' up to place at - 1, the '@', a run
\* up to place dot - 1, the '.', and a run up to the end.
appNoAt(s, from, to) == from <= to /\ \A k \in from..to : s[k] # "@"

appIsValidEmail(s) ==
  \E at \in 1..Len(s) : \E dot \in 1..Len(s) :
    /\ at < dot
    /\ appNoAt(s, 1, at - 1)
    /\ s[at] = "@"
    /\ appNoAt(s, at + 1, dot - 1)
    /\ s[dot] = "."
    /\ appNoAt(s, dot + 1, Len(s))

\* const user = { id, email, name: input.name, verified: false }
appNewUser(id, e, name) == [id |-> id, email |-> e, name |-> name, verified |-> FALSE]

\* exec is called: the email is normalized and validated and, if it is
\* well-formed, repo.findByEmail is called and awaited.
appRegisterWith(r, input) ==
  /\ pc[r] = "idle"
  /\ \A q \in Reqs : q < r => pc[q] # "idle"
  /\ req' = [req EXCEPT ![r] = input]
  /\ email' = [email EXCEPT ![r] = appNormalizeEmail(input.email)]
  /\ IF appIsValidEmail(email'[r])
     THEN /\ calls' = [calls EXCEPT ![r] = <<Call("findByEmail", email'[r])>>]
          /\ pc' = [pc EXCEPT ![r] = "findByEmail"]
          /\ UNCHANGED <<result, published, delivered>>
     ELSE /\ HandlerThrows(r, INVALID_EMAIL)
          /\ UNCHANGED calls
  /\ UNCHANGED <<users, now, nextId, existing, user, mails, lastSweep>>

appRegister(r) == \E input \in RegisterInput : appRegisterWith(r, input)

\* findByEmail resolves: throw EMAIL_TAKEN, or newId, user, repo.create.
appFindByEmail(r) ==
  /\ pc[r] = "findByEmail"
  /\ \/ /\ \E row \in FindByEmailResults(users, email[r]) :
             existing' = [existing EXCEPT ![r] = {row}]
        /\ HandlerThrows(r, EMAIL_TAKEN)
        /\ UNCHANGED <<nextId, user, calls>>
     \/ /\ FindByEmailResults(users, email[r]) = {}
        /\ existing' = [existing EXCEPT ![r] = null]
        /\ nextId' = newId(nextId)
        /\ user' = [user EXCEPT ![r] = {appNewUser(newId(nextId), email[r], req[r].name)}]
        /\ calls' = [calls EXCEPT ![r] =
                       @ \o <<Call("newId", newId(nextId)),
                              Call("create", appNewUser(newId(nextId), email[r], req[r].name))>>]
        /\ pc' = [pc EXCEPT ![r] = "create"]
        /\ UNCHANGED <<result, published, delivered>>
  /\ UNCHANGED <<users, now, req, email, mails, lastSweep>>

\* create resolves or rejects; resolved: sendWelcome, return user, and the
\* handler calls signups.publish.
appCreate(r) ==
  /\ pc[r] = "create"
  /\ \/ /\ InsertViolates(users, The(user[r]))
        /\ HandlerThrows(r, SQL_UNIQUE_VIOLATION)
        /\ UNCHANGED <<users, mails, calls>>
     \/ /\ ~InsertViolates(users, The(user[r]))
        /\ users' = users \cup {InsertedRow(The(user[r]), now)}
        /\ mails' = mails (+) SetToBag({Welcome(email[r], req[r].name, "usecase")})
        /\ calls' = [calls EXCEPT ![r] =
                       @ \o << Call("sendWelcome", <<email[r], req[r].name>>),
                               Call("publish", SignupEvent(The(user[r]))) >>]
        /\ pc' = [pc EXCEPT ![r] = "publish"]
        /\ UNCHANGED <<result, published, delivered>>
  /\ UNCHANGED <<now, nextId, req, email, existing, user, lastSweep>>

\* The handler wired with either copy of the use-case.
NextCopies ==
  \/ \E r \in Reqs : Register(r)
  \/ \E r \in Reqs : FindByEmail(r)
  \/ \E r \in Reqs : Create(r)
  \/ \E r \in Reqs : appRegister(r)
  \/ \E r \in Reqs : appFindByEmail(r)
  \/ \E r \in Reqs : appCreate(r)
  \/ \E r \in Reqs : Publish(r)
  \/ seed

SpecCopies == Init /\ [][NextCopies]_vars

\* The requests with an email sender that may fail.
NextMailFails ==
  \/ \E r \in Reqs : Register(r)
  \/ \E r \in Reqs : FindByEmail(r)
  \/ \E r \in Reqs : Create(r)
  \/ \E r \in Reqs : CreateMailThrows(r)
  \/ \E r \in Reqs : Publish(r)

SpecMailFails == Init /\ [][NextMailFails]_vars

\* deliveryGuarantee "at-least-once": the topic does not hold back for ever
\* a delivery of a published event.
AtLeastOnce == \A i \in 1..NumReqs : WF_vars(Deliver(i))

SpecAtLeastOnce == SpecSignups /\ AtLeastOnce

\* The validation alone: one request, its email any string of at most
\* MaxLen characters over a letter, a capital, '@', '.' and the blank.
Alphabet == {"a", "A", "@", ".", " "}

Strings == UNION { [1..n -> Alphabet] : n \in 0..MaxLen }

Validate == \E s \in Strings : RegisterWith(1, [email |-> s, name |-> undefined])

SpecValidation == Init /\ [][Validate]_vars


(***************************************************************************)
(* What the claims say, in the words of the specification.                 *)
(***************************************************************************)
\* "lowercased and trimmed": the characters from the first to the last
\* non-blank one, each upper-case letter replaced by its lower-case one.
TrimmedLowercased(s) ==
  LET inked == { i \in 1..Len(s) : s[i] # " " } IN
    IF inked = {} THEN <<>>
    ELSE LET lo == CHOOSE i \in inked : \A j \in inked : i <= j
             hi == CHOOSE i \in inked : \A j \in inked : j <= i
         IN [k \in 1..(hi - lo + 1) |->
               LET c == s[lo + k - 1] IN
                 IF c = "A" THEN "a" ELSE IF c = "B" THEN "b" ELSE c]

\* "well-formed": one '@', something before it, and after it a '.' with
\* something on both sides.
WellFormed(s) ==
  LET ats == { i \in 1..Len(s) : s[i] = "@" } IN
    /\ Cardinality(ats) = 1
    /\ LET at == CHOOSE i \in ats : TRUE IN
         /\ at > 1
         /\ \E d \in (at + 1)..Len(s) : s[d] = "." /\ d > at + 1 /\ d < Len(s)

\* the calls of port operation op that request r has made
CallsOf(r, op) == SelectSeq(calls[r], LAMBDA c : c.op = op)

\* exec has returned its record to the handler
ExecReturned(r) ==
  \/ pc[r] = "publish"
  \/ pc[r] = "done" /\ result[r].kind = "return"

\* the record the specification says a registration of request r yields
ExpectedUser(r) ==
  [id |-> CallsOf(r, "newId")[1].arg,
   email |-> TrimmedLowercased(req[r].email),
   name |-> req[r].name,
   verified |-> FALSE]

\* C1: a registration whose email is well-formed once trimmed and lowercased,
\* whose lookup found no stored user and whose insert was accepted returns
\* the record {id: the value newId returned, email: the trimmed lowercased
\* email, name: the input name, verified: false}, and exactly that record,
\* once, has been passed to repo.create.
C1_RegisterReturnsNewUser ==
  \A r \in Reqs :
    ( /\ pc[r] \in {"publish", "done"}
      /\ WellFormed(TrimmedLowercased(req[r].email))
      /\ existing[r] = null
      /\ result[r] # Thrown(SQL_UNIQUE_VIOLATION) )
    => /\ ExecReturned(r)
       /\ Len(CallsOf(r, "newId")) = 1
       /\ user[r] = {ExpectedUser(r)}
       /\ CallsOf(r, "create") = <<Call("create", ExpectedUser(r))>>

\* the unit test's case: "A@B.com", "Alice" has been registered
C1_Witness ==
  \E r \in Reqs :
    /\ pc[r] = "done"
    /\ result[r].kind = "return"
    /\ req[r] = [email |-> Email_A_B_com, name |-> "Alice"]


\* request r takes the step that calls the handler
Called(r) == pc[r] = "idle" /\ pc'[r] # "idle"

\* C2: a registration whose email is malformed once trimmed and lowercased
\* throws INVALID_EMAIL without calling any port (no findByEmail, newId,
\* create or sendWelcome), so the stored users and the sent emails are
\* unchanged.
C2_InvalidEmailRejected ==
  [][\A r \in Reqs :
       (Called(r) /\ ~WellFormed(TrimmedLowercased(req'[r].email)))
       => /\ pc'[r] = "done"
          /\ result'[r] = Thrown(INVALID_EMAIL)
          /\ calls'[r] = <<>>
          /\ UNCHANGED <<users, mails, nextId, published>>]_vars

\* "a@b" was rejected while users were stored
C2_Witness ==
  \E r \in Reqs :
    /\ pc[r] = "done"
    /\ req[r].email = Email_a_b_nodot
    /\ result[r] = Thrown(INVALID_EMAIL)
    /\ users # {}

\* request r takes the step in which its findByEmail resolves
LookedUp(r) == pc[r] = "findByEmail" /\ pc'[r] # "findByEmail"

\* C3: a registration whose trimmed lowercased email equals the email of a
\* stored user throws EMAIL_TAKEN and leaves the stored users unchanged; it
\* makes no newId, create or sendWelcome call.
C3_TakenEmailRejected ==
  [][\A r \in Reqs :
       (LookedUp(r) /\ \E row \in users : row.email = TrimmedLowercased(req[r].email))
       => /\ pc'[r] = "done"
          /\ result'[r] = Thrown(EMAIL_TAKEN)
          /\ calls'[r] = <<Call("findByEmail", TrimmedLowercased(req[r].email))>>
          /\ UNCHANGED <<users, mails, nextId, published>>]_vars

\* " Bob@example.com " was rejected: it differs from the stored address in
\* letter case and in the blanks around it
C3_Witness ==
  \E r \in Reqs :
    /\ pc[r] = "done"
    /\ result[r] = Thrown(EMAIL_TAKEN)
    /\ req[r].email = Email_Bob_example
    /\ \E row \in users : row.email = bob_example_com /\ row.email # req[r].email

\* C4: the email is trimmed and lowercased before it is used: the argument
\* of findByEmail, the email passed to create, the address passed to
\* sendWelcome and the email of the returned record are all the trimmed
\* lowercased input email.
C4_EmailNormalizedEverywhere ==
  \A r \in Reqs :
    LET e == TrimmedLowercased(req[r].email) IN
      /\ \A i \in 1..Len(calls[r]) :
           LET c == calls[r][i] IN
             /\ c.op = "findByEmail" => c.arg = e
             /\ c.op = "create" => c.arg.email = e
             /\ c.op = "sendWelcome" => c.arg[1] = e
      /\ ExecReturned(r) => The(user[r]).email = e
      /\ result[r].kind = "return" => result[r].body.email = e

\* a padded, capitalised address went through all four uses
C4_Witness ==
  \E r \in Reqs :
    /\ pc[r] = "done"
    /\ result[r].kind = "return"
    /\ req[r].email = Email_Bob_example
    /\ result[r].body.email # req[r].email
    /\ Len(CallsOf(r, "sendWelcome")) = 1

\* C5: no two stored user records have the same email.
C5_EmailUnique ==
  \A u \in users : \A v \in users : u.email = v.email => u = v

\* the constraint has rejected an insert, and two users are stored
C5_Witness ==
  /\ Cardinality(users) >= 2
  /\ \E r \in Reqs : pc[r] = "done" /\ result[r] = Thrown(SQL_UNIQUE_VIOLATION)

\* the rows created by registration: their ids came from IdGen
Registered == { row \in users : row.id \in 1..nextId }

\* C6: a user created by registration is stored with verified = false and
\* is so in every later state, whatever registrations and sweeps follow.
C6_RegisteredStayUnverified ==
  \A row \in Registered : row.verified = FALSE

\* a sweep has matched a registered user: only registered users are stored
C6_Witness ==
  /\ Registered # {}
  /\ Registered = users
  /\ lastSweep.ran
  /\ lastSweep.matched >= 1

\* C7 (as claimed): a registration ends in one of three ways, a returned
\* record, INVALID_EMAIL or EMAIL_TAKEN; among concurrent registrations
\* (no seeded row is stored) a rejection for a stored email is never
\* signalled by another error.
C7_ThreeOutcomes ==
  \A r \in Reqs :
    (pc[r] = "done" /\ Registered = users)
    => \/ result[r].kind = "return"
       \/ result[r] = Thrown(INVALID_EMAIL)
       \/ result[r] = Thrown(EMAIL_TAKEN)

\* C8: when exec succeeds the handler responds with status Created (201) and
\* the id, email, name and verified of the record exec returned.
C8_CreatedResponse ==
  \A r \in Reqs :
    result[r].kind = "return"
    => LET u == The(user[r])
           body == result[r].body
       IN /\ user[r] # null
          /\ body.status = 201
          /\ body.id = u.id
          /\ body.email = u.email
          /\ body.name = u.name
          /\ body.verified = u.verified

\* a request without a name has been answered
C8_Witness ==
  \E r \in Reqs :
    /\ result[r].kind = "return"
    /\ req[r].name = undefined
    /\ result[r].body.id = nextId


\* C9 (as claimed): the endpoint answers EMAIL_TAKEN with a conflict error
\* and INVALID_EMAIL with a validation error, so the two rejections differ
\* from each other and from an internal failure.
C9_ErrorsTranslated ==
  \A r \in Reqs :
    pc[r] = "done"
    => /\ result[r] = Thrown(EMAIL_TAKEN)
            => EndpointResponse(result[r]).code = "already_exists"
       /\ result[r] = Thrown(INVALID_EMAIL)
            => EndpointResponse(result[r]).code = "invalid_argument"

\* the requests whose handler has returned
Answered == { r \in Reqs : pc[r] = "done" /\ result[r].kind = "return" }

\* C10: the signup event is published only after exec has returned: a
\* handler calls signups.publish at most once, as its last call and after
\* exec's last port call; a request that threw has called no publish; and
\* the topic holds one event per request that was answered.
C10_PublishAfterSuccess ==
  /\ \A r \in Reqs :
       /\ Len(CallsOf(r, "publish")) <= 1
       /\ \A i \in 1..Len(calls[r]) :
            calls[r][i].op = "publish"
            => /\ i = Len(calls[r])
               /\ i > 1
               /\ calls[r][i - 1].op = "sendWelcome"
               /\ user[r] # null
               /\ calls[r][i].arg = SignupEvent(The(user[r]))
       /\ result[r].kind = "throw" => CallsOf(r, "publish") = <<>>
  /\ Len(published) = Cardinality(Answered)

\* one request was answered and published its event, the other was
\* rejected with EMAIL_TAKEN
C10_Witness ==
  /\ Len(published) = 1
  /\ \E r \in Reqs : r \in Answered /\ Len(CallsOf(r, "publish")) = 1
  /\ \E r \in Reqs : pc[r] = "done" /\ result[r] = Thrown(EMAIL_TAKEN)

\* C11: every published signup event carries the id and the stored
\* (trimmed, lowercased) email of a user of the users table, the one its
\* request created.
C11_EventNamesStoredUser ==
  \A i \in 1..Len(published) :
    /\ \E row \in users :
         row.id = published[i].userID /\ row.email = published[i].email
    /\ \E r \in Answered :
         /\ published[i].userID = result[r].body.id
         /\ published[i].email = TrimmedLowercased(req[r].email)

\* the event of a request that sent a padded, capitalised address is on
\* the topic
C11_Witness ==
  \E i \in 1..Len(published) :
    /\ published[i].email = bob_example_com
    /\ \E r \in Answered : req[r].email = Email_Bob_example

\* "stale unverified": verified = false and created more than 24 hours ago
StaleRow(row) == row.verified = FALSE /\ now - row.created_at > 24

\* the users table after cleanupUnverified runs now, and after it runs twice
SweptOnce == Swept(users, now, CleanupHours)
SweptTwice == Swept(SweptOnce, now, CleanupHours)

\* C12: cleanupUnverified is idempotent: from every state of the users
\* table, running it twice in a row at the same instant leaves the table as
\* running it once does.
C12_CleanupIdempotent == SweptTwice = SweptOnce

\* a sweep has matched rows, and a second one now would match rows again
C12_Witness ==
  /\ lastSweep.ran
  /\ lastSweep.matched >= 1
  /\ \E row \in users : StaleRow(row)
  /\ \E row \in users : row.verified /\ now - row.created_at > 24

\* the row of the table t that has the id of row
SameUser(t, row) == { x \in t : x.id = row.id }

\* C13: the sweep touches only stale unverified rows: it inserts and
\* deletes no user, changes no id, email, name or created_at, leaves every
\* user that is verified or not older than 24 hours as it is, and the rows
\* it touches have verified = false afterwards.
C13_CleanupFrame ==
  /\ Cardinality(SweptOnce) = Cardinality(users)
  /\ \A row \in users :
       /\ \E x \in SweptOnce :
            /\ x.id = row.id
            /\ x.email = row.email
            /\ x.name = row.name
            /\ x.created_at = row.created_at
            /\ StaleRow(row) => x.verified = FALSE
       /\ ~StaleRow(row) => row \in SweptOnce

\* a sweep has run over a table that holds a stale unverified user, a stale
\* verified one and one registered exactly 24 hours ago
C13_Witness ==
  /\ lastSweep.ran
  /\ lastSweep.matched = 1
  /\ \E row \in users : StaleRow(row)
  /\ \E row \in users : row.verified /\ now - row.created_at > 24
  /\ \E row \in Registered : now - row.created_at = 24

\* request q takes a step of its handler
Steps(q) == pc'[q] # pc[q]

\* the request that q is called with (in the step that calls it) or was
\* called with
RequestOf(q) == IF pc[q] = "idle" THEN req'[q] ELSE req[q]

\* C14: POST /users is idempotent in its effects: once a request has been
\* answered, no step of a further request with the same body changes the
\* stored users, sends a welcome email or publishes a signup event.
C14_RetryHasNoEffect ==
  [][\A q \in Reqs :
       (Steps(q) /\ \E r \in Answered : r # q /\ req[r] = RequestOf(q))
       => UNCHANGED <<users, mails, published>>]_vars

\* the same request was sent again after it was answered, and was rejected
C14_Witness ==
  \E r \in Answered : \E q \in Reqs :
    /\ q # r
    /\ req[q] = req[r]
    /\ pc[q] = "done"
    /\ existing[q] # null
    /\ The(existing[q]).id = result[r].body.id
    /\ Len(published) = 1

\* request r takes a step of exec: it is called, its findByEmail resolves
\* or its create resolves or rejects
ExecSteps(r) == pc[r] \in {"idle", "findByEmail", "create"} /\ pc'[r] # pc[r]

\* the calls that the step adds to the log of request r
NewCalls(r) == SubSeq(calls'[r], Len(calls[r]) + 1, Len(calls'[r]))

\* the step adds a call of operation op to the log of request r
Calls(r, op) == \E i \in 1..Len(NewCalls(r)) : NewCalls(r)[i].op = op

\* C15: exec acts on the outside only through its ports: a step of exec
\* changes the users table only by the row of its one create call, the
\* emails only by the one of its one sendWelcome call and the ids only by
\* its newId call; it publishes no event, changes no other request, the
\* clock or the job's state, and over the whole call makes at most one
\* create and one sendWelcome call.
C15_ExecEffectsOnlyViaPorts ==
  [][\A r \in Reqs :
       ExecSteps(r)
       => /\ UNCHANGED <<now, lastSweep, published, delivered>>
          /\ \A q \in Reqs \ {r} :
               /\ pc'[q] = pc[q]
               /\ calls'[q] = calls[q]
               /\ user'[q] = user[q]
               /\ result'[q] = result[q]
          /\ IF users' # users
             THEN /\ pc[r] = "create"
                  /\ Len(CallsOf(r, "create")) = 1
                  /\ users' = users \cup
                       { [id |-> u.id, email |-> u.email,
                          name |-> IF u.name = undefined THEN SqlNull ELSE u.name,
                          verified |-> u.verified, created_at |-> now]
                         : u \in {CallsOf(r, "create")[1].arg} }
             ELSE TRUE
          /\ IF mails' # mails
             THEN /\ Calls(r, "sendWelcome")
                  /\ Len(SelectSeq(calls'[r], LAMBDA c : c.op = "sendWelcome")) = 1
                  /\ mails' = mails (+) SetToBag(
                       {[to |-> TrimmedLowercased(req[r].email), name |-> req[r].name,
                         via |-> "usecase"]})
             ELSE ~Calls(r, "sendWelcome")
          /\ IF nextId' # nextId
             THEN Calls(r, "newId") /\ nextId' = nextId + 1
             ELSE ~Calls(r, "newId")
          /\ \A i \in 1..Len(calls'[r]) :
               calls'[r][i].op \in {"findByEmail", "newId", "create", "sendWelcome", "publish"}]_vars

\* an exec call has made all four port calls and left its row and its email
C15_Witness ==
  \E r \in Reqs :
    /\ pc[r] = "publish"
    /\ Len(CallsOf(r, "findByEmail")) = 1
    /\ Len(CallsOf(r, "newId")) = 1
    /\ Len(CallsOf(r, "create")) = 1
    /\ Len(CallsOf(r, "sendWelcome")) = 1
    /\ \E row \in users : row.id = The(user[r]).id
    /\ published = <<>>

\* the operations of the calls of request r, in the order they were made
OpsOf(r) == [i \in 1..Len(calls[r]) |-> calls[r][i].op]

\* the documented order of the calls of a registration
FlowOrder == <<"findByEmail", "newId", "create", "sendWelcome", "publish">>

\* s is the beginning of t
IsPrefix(s, t) == Len(s) <= Len(t) /\ SubSeq(t, 1, Len(s)) = s

\* C16: the calls of every request are made in the order findByEmail,
\* create, sendWelcome, publish, and a request that is answered 201 has made
\* them all; a welcome email of the use-case is sent only when its record is
\* stored, an event is published only when its welcome email was sent, and
\* the response is returned only when its event was published.
C16_RequestFlowOrder ==
  /\ \A r \in Reqs :
       /\ IsPrefix(OpsOf(r), FlowOrder)
       /\ r \in Answered =>
            /\ OpsOf(r) = FlowOrder
            /\ \E i \in 1..Len(published) : published[i].userID = result[r].body.id
  /\ \A m \in BagToSet(mails) :
       m.via = "usecase" => \E row \in Registered : row.email = m.to
  /\ \A i \in 1..Len(published) :
       /\ \E row \in Registered : row.id = published[i].userID
       /\ \E m \in BagToSet(mails) : m.via = "usecase" /\ m.to = published[i].email

\* one request was answered 201 while the other has its record stored and
\* its welcome email sent but its event not yet published
C16_Witness ==
  \E r \in Answered : \E q \in Reqs :
    /\ pc[q] = "publish"
    /\ Len(published) = 1
    /\ \E m \in BagToSet(mails) : m.to = TrimmedLowercased(req[q].email)
    /\ req[q].email # req[r].email

\* the requests that have been made
Started == { r \in Reqs : pc[r] # "idle" }

\* request r asks for a well-formed email that no other request asks for and
\* that no user stored otherwise (a seeded one) has
Alone(r) ==
  /\ WellFormed(TrimmedLowercased(req[r].email))
  /\ \A q \in Started \ {r} :
       TrimmedLowercased(req[q].email) # TrimmedLowercased(req[r].email)
  /\ \A row \in users \ Registered : row.email # TrimmedLowercased(req[r].email)

\* C17: a registration whose well-formed, unused normalized email differs
\* from that of every concurrent registration succeeds however the steps
\* interleave, with what it yields alone: the record of its own id and
\* input is returned with 201, stored once, named by exactly one published
\* event, and welcomed by exactly one email of the use-case.
C17_RequestsIndependent ==
  \A r \in Started :
    Alone(r) =>
      /\ pc[r] \in {"findByEmail", "create"} =>
           \A row \in users : row.email # TrimmedLowercased(req[r].email)
      /\ pc[r] = "done" =>
           /\ result[r].kind = "return"
           /\ result[r] = Returned([id |-> ExpectedUser(r).id,
                                    email |-> ExpectedUser(r).email,
                                    name |-> ExpectedUser(r).name,
                                    verified |-> FALSE,
                                    status |-> 201])
           /\ Cardinality({ row \in users : row.email = ExpectedUser(r).email }) = 1
           /\ \E row \in users :
                /\ row.id = ExpectedUser(r).id
                /\ row.email = ExpectedUser(r).email
                /\ row.name = (IF req[r].name = undefined THEN SqlNull ELSE req[r].name)
                /\ row.verified = FALSE
           /\ Cardinality({ i \in 1..Len(published) :
                              published[i].email = ExpectedUser(r).email }) = 1
           /\ \E i \in 1..Len(published) :
                published[i] = [userID |-> ExpectedUser(r).id,
                                email |-> ExpectedUser(r).email]
           /\ CopiesIn([to |-> ExpectedUser(r).email, name |-> req[r].name,
                        via |-> "usecase"], mails) = 1

\* two registrations of different well-formed unused emails have both been
\* answered, their steps interleaved: the one that took its id first had its
\* event published last
C17_Witness ==
  /\ Started = Reqs
  /\ \A r \in Reqs : Alone(r) /\ r \in Answered
  /\ \E r, q \in Reqs : r # q /\ req[r].email # req[q].email
  /\ \E r, q \in Reqs :
       /\ CallsOf(r, "newId")[1].arg < CallsOf(q, "newId")[1].arg
       /\ \E i \in 1..Len(published) :
            /\ published[i].userID = ExpectedUser(q).id
            /\ \A j \in 1..Len(published) :
                 published[j].userID = ExpectedUser(r).id => i < j

\* C18: disableUnverifiedOlderThan(hours) returns the number of rows its
\* sweep matched (verified = false and created more than hours ago).
C18_SweepReturnsMatched ==
  lastSweep.ran => lastSweep.returned = lastSweep.matched

\* the positions of the calls of operation op in the log of request r
PositionsOf(r, op) == { i \in 1..Len(calls[r]) : calls[r][i].op = op }

PositionsIn(s, c) == { i \in 1..Len(s) : s[i] = c }

\* s has exactly one '@', at least one character before it, and after it a
\* '.' with at least one character before it and at least one after it
OneAtAndDottedDomain(s) ==
  /\ Cardinality(PositionsIn(s, "@")) = 1
  /\ \A at \in PositionsIn(s, "@") :
       /\ at >= 2
       /\ \E dot \in PositionsIn(s, ".") : at + 1 < dot /\ dot < Len(s)

\* C20: the validation of exec accepts the trimmed lowercased email exactly
\* when it has exactly one '@', at least one character before the '@', and
\* after the '@' a '.' with at least one character before it and at least
\* one after it; every other string is rejected with INVALID_EMAIL.
C20_ValidationAcceptsExactly ==
  \A r \in Started :
    /\ email[r] = TrimmedLowercased(req[r].email)
    /\ IF OneAtAndDottedDomain(email[r])
       THEN /\ pc[r] = "findByEmail"
            /\ result[r] = Pending
       ELSE /\ pc[r] = "done"
            /\ result[r] = Thrown(INVALID_EMAIL)

\* the validation has accepted an email that the normalization changed
C20_Witness ==
  /\ pc[1] = "findByEmail"
  /\ email[1] = <<"a", "@", "a", ".", "a">>
  /\ req[1].email = <<"A", "@", "a", ".", "a">>

\* request r was rejected by the validation or by the uniqueness lookup
Rejected(r) == result[r] \in {Thrown(INVALID_EMAIL), Thrown(EMAIL_TAKEN)}

\* request r has passed the validation and the uniqueness lookup
PassedLookup(r) == pc[r] \in {"create", "publish", "done"} /\ ~Rejected(r)

\* C21: a registration that has passed the validation and the uniqueness
\* lookup has called newId exactly once, and the id returned is the id of
\* the one record passed to repo.create and of the record returned; a
\* registration rejected with INVALID_EMAIL or EMAIL_TAKEN has not called
\* newId at all.
C21_OneIdPerRegistration ==
  \A r \in Started :
    /\ Rejected(r) => PositionsOf(r, "newId") = {}
    /\ pc[r] = "findByEmail" => PositionsOf(r, "newId") = {}
    /\ PassedLookup(r) =>
         /\ Cardinality(PositionsOf(r, "newId")) = 1
         /\ Cardinality(PositionsOf(r, "create")) = 1
         /\ \A i \in PositionsOf(r, "newId") : \A j \in PositionsOf(r, "create") :
              /\ calls[r][j].arg.id = calls[r][i].arg
              /\ result[r].kind = "return" => result[r].body.id = calls[r][i].arg

\* one registration was answered with the record of its id, another was
\* rejected with EMAIL_TAKEN without taking an id
C21_Witness ==
  \E r \in Answered : \E q \in Started :
    /\ result[q] = Thrown(EMAIL_TAKEN)
    /\ PositionsOf(q, "newId") = {}
    /\ PositionsOf(r, "newId") = {2}
    /\ result[r].body.id = nextId

\* C22: in every reachable state, after any registrations and sweeps, the
\* email of every stored user that a registration created is in normalized
\* form (trimming and lowercasing it changes nothing) and passes the email
\* validation.
C22_StoredEmailsNormalizedAndValid ==
  \A row \in Registered :
    /\ TrimmedLowercased(row.email) = row.email
    /\ OneAtAndDottedDomain(row.email)

\* a user registered with a padded, capitalised address is stored and was
\* swept by the job, and a request with a malformed address was made
C22_Witness ==
  /\ lastSweep.ran /\ lastSweep.matched >= 1
  /\ \E row \in Registered : row.email = bob_example_com /\ now - row.created_at > 24
  /\ \E r \in Started : req[r].email = Email_Bob_example
  /\ \E q \in Started : req[q].email = Email_a_b_nodot

\* the welcome emails that the subscription has sent
SecondaryMails == { m \in BagToSet(mails) : m.via = "subscription" }

\* the events published for address e
EventsFor(e) == { i \in 1..Len(published) : published[i].email = e }

\* C23: the subscription sends welcome emails only for published signups:
\* every secondary welcome email is addressed to the email of a published
\* event and has no name, and the emails sent for an event are as many as
\* its deliveries, one sendWelcome call each.
C23_SecondaryMailsOnlyForPublished ==
  /\ \A m \in SecondaryMails :
       /\ m.name = undefined
       /\ EventsFor(m.to) # {}
  /\ \A i \in 1..Len(published) :
       EventsFor(published[i].email) = {i}
       => CopiesIn([to |-> published[i].email, name |-> undefined,
                    via |-> "subscription"], mails) = delivered[i]

\* one event was delivered twice, another is published and not delivered
C23_Witness ==
  \E i, j \in 1..Len(published) :
    /\ delivered[i] = 2
    /\ delivered[j] = 0
    /\ CopiesIn([to |-> published[i].email, name |-> undefined,
                 via |-> "subscription"], mails) = 2
    /\ \A m \in SecondaryMails : m.to # published[j].email

\* C24: under at-least-once delivery every published signup event is
\* eventually delivered to the subscription, and every registration answered
\* 201 is eventually followed by a secondary welcome email to the registered
\* address.
C24_SignupEventuallyWelcomed ==
  /\ \A i \in 1..NumReqs :
       (Len(published) >= i) ~> (Len(published) >= i /\ delivered[i] >= 1)
  /\ \A r \in Reqs :
       (r \in Answered)
       ~> (\E m \in SecondaryMails : m.to = TrimmedLowercased(req[r].email))

\* a registration was answered 201 and its event was delivered more than
\* once, each time with an email to the registered address
C24_Witness ==
  \E r \in Answered : \E i \in 1..Len(published) :
    /\ published[i].userID = result[r].body.id
    /\ delivered[i] > 1
    /\ CopiesIn([to |-> result[r].body.email, name |-> undefined,
                 via |-> "subscription"], mails) = delivered[i]

\* the requests for the address e, once trimmed and lowercased
RequestsFor(e) == { r \in Started : TrimmedLowercased(req[r].email) = e }

\* the welcome emails that the use-case has sent to the address e
PrimaryMailsTo(e) == { m \in BagToSet(mails) : m.via = "usecase" /\ m.to = e }

\* C25: of the concurrent registrations with the same normalized email, in
\* every interleaving of their lookups and inserts, at most one returns a
\* record, at most one record is stored, at most one welcome email is sent by
\* the use-case and at most one signup event is published for that email.
C25_OneWinnerPerEmail ==
  \A q \in Started :
    LET e == TrimmedLowercased(req[q].email) IN
      /\ Cardinality({ r \in RequestsFor(e) : ExecReturned(r) }) <= 1
      /\ Cardinality({ row \in users : row.email = e }) <= 1
      /\ Cardinality(PrimaryMailsTo(e)) <= 1
      /\ \A m \in PrimaryMailsTo(e) : CopiesIn(m, mails) = 1
      /\ Cardinality(EventsFor(e)) <= 1

\* two registrations with the same email both passed the lookup before either
\* insert: one was answered with its record, the other's insert was rejected
C25_Witness ==
  \E r \in Answered : \E q \in Started \ {r} :
    /\ req[q] = req[r]
    /\ PositionsOf(q, "create") # {}
    /\ result[q] = Thrown(SQL_UNIQUE_VIOLATION)
    /\ Cardinality(EventsFor(result[r].body.email)) = 1

\* the sendWelcome call of request r was rejected after its create succeeded
MailFailed(r) == pc[r] = "done" /\ result[r] = Thrown(SEND_REJECTED)

\* C26: when sendWelcome throws after create succeeded, exec and the handler
\* throw, no signup event is published for that user, then or later, and the
\* created record stays stored, so that the lookup of a later request for
\* the same email finds it: that request is rejected with EMAIL_TAKEN and
\* changes nothing.
C26_NotAtomicAcrossPorts ==
  [][\A r \in Reqs :
       /\ MailFailed(r)' =>
            /\ \E row \in users' :
                 /\ row.id = The(user'[r]).id
                 /\ row.email = TrimmedLowercased(req'[r].email)
            /\ \A i \in 1..Len(published') :
                 /\ published'[i].userID # The(user'[r]).id
                 /\ published'[i].email # TrimmedLowercased(req'[r].email)
            /\ PrimaryMailsTo(TrimmedLowercased(req[r].email))' = {}
       /\ \A q \in Reqs \ {r} :
            (MailFailed(r) /\ LookedUp(q) /\ req[q] = req[r])
            => /\ result'[q] = Thrown(EMAIL_TAKEN)
               /\ The(existing'[q]).id = The(user[r]).id
               /\ UNCHANGED <<users, mails, published, nextId>>]_vars

\* the record of a registration whose welcome email failed is stored without
\* an event, and the retry of the request was rejected with EMAIL_TAKEN
C26_Witness ==
  \E r, q \in Reqs :
    /\ MailFailed(r)
    /\ q # r /\ req[q] = req[r]
    /\ result[q] = Thrown(EMAIL_TAKEN)
    /\ existing[q] # null
    /\ The(existing[q]).id = The(user[r]).id
    /\ published = <<>>
    /\ Cardinality(users) = 1

\* the emails that the requests, once normalized, and the seed script use
KnownEmails ==
  { TrimmedLowercased(i.email) : i \in RegisterInput } \cup { s.email : s \in SeedUsers }

\* the record that request r passed to repo.create
CreatedBy(r) == CallsOf(r, "create")[1].arg

\* C27: after create(u) succeeded, findByEmail(u.email) returns a record
\* equal to u in id, email, name and verified, an absent name being stored as
\* NULL and read back as absent; findByEmail of an email that no stored row
\* has returns null.
C27_RepoRoundTrip ==
  /\ \A r \in Reqs :
       ExecReturned(r) =>
         /\ FindByEmailResults(users, CreatedBy(r).email) = {CreatedBy(r)}
         /\ \A row \in users :
              row.id = CreatedBy(r).id /\ CreatedBy(r).name = undefined
              => row.name = SqlNull
  /\ \A e \in KnownEmails :
       (\A row \in users : row.email # e) <=> FindByEmailResults(users, e) = null
  /\ \A q \in Reqs :
       /\ existing[q] # null =>
            \/ \E r \in Reqs : PositionsOf(r, "create") # {} /\ existing[q] = {CreatedBy(r)}
            \/ \E s \in SeedUsers : existing[q] = {s}
       /\ PositionsOf(q, "create") # {} => existing[q] = null

\* a record without a name was created, is stored with name NULL, and was
\* read back by a later lookup without a name; no row has alice's email
C27_Witness ==
  \E r \in Answered : \E q \in Started :
    /\ CreatedBy(r).name = undefined
    /\ \E row \in users : row.id = CreatedBy(r).id /\ row.name = SqlNull
    /\ existing[q] = {CreatedBy(r)}
    /\ FindByEmailResults(users, alice_example_com) = null

\* the times at which the script can be run again
LaterTimes == { now, now + TickHours }

\* C28: the seed script is idempotent and never overwrites: run on any
\* reachable table, a second run, then or later, changes nothing, and a run
\* leaves every row that is already stored, those with a seeded email
\* included, as it is, adding only sample users whose email no row had.
C28_SeedIdempotent ==
  LET once == Seeded(users, now) IN
    /\ \A t \in LaterTimes : Seeded(once, t) = once
    /\ users \subseteq once
    /\ \A row \in once \ users :
         /\ \E s \in SeedUsers :
              /\ row.id = s.id /\ row.email = s.email
              /\ row.name = s.name /\ row.verified = s.verified
         /\ \A old \in users : old.email # row.email
    /\ \A s \in SeedUsers : Cardinality({ row \in once : row.email = s.email }) = 1

\* the script has run, earlier, on a table where a registered user had the
\* email of one of the sample users: the other sample user was inserted
C28_Witness ==
  /\ \E row \in Registered : row.email = bob_example_com
  /\ \E row \in users :
       row.email = alice_example_com /\ row.id \in SeedIds /\ row.created_at < now
  /\ \A row \in users : row.id \in SeedIds => row.email = alice_example_com

\* a step of exec of the copy src/app/user/usecases/RegisterUser.ts
UserCopyStep(r) == Register(r) \/ FindByEmail(r) \/ Create(r)

\* a step of exec of the copy src/app/usecases/RegisterUser.ts
AppCopyStep(r) == appRegister(r) \/ appFindByEmail(r) \/ appCreate(r)

\* C29: the two copies of the use-case are behaviourally equivalent: from
\* the same state of the ports and the same input, a step is a step of one
\* copy exactly when it is a step of the other (the same port calls with the
\* same arguments, the same record returned or the same error thrown), and
\* the two copies normalize and validate every string alike.
C29_CopiesEquivalent ==
  [][/\ \A r \in Reqs : UserCopyStep(r) <=> AppCopyStep(r)
     /\ Called(1) =>
          \A s \in Strings :
            /\ appNormalizeEmail(s) = normalizeEmail(s)
            /\ appIsValidEmail(appNormalizeEmail(s)) = isValidEmail(normalizeEmail(s))
            /\ appIsValidEmail(s) = isValidEmail(s)]_vars

\* with either copy, a padded capitalised address was registered and
\* answered, a second request was rejected, and a seeded email was taken
C29_Witness ==
  \E r \in Answered : \E q \in Started :
    /\ req[r].email = Email_Bob_example
    /\ OpsOf(r) = FlowOrder
    /\ pc[q] = "done" /\ result[q].kind = "throw"
    /\ \E row \in users : row.id \in SeedIds

====
